---------------------------- MODULE Spec2Model ----------------------------
(***************************************************************************)
(* Model of src/main.py: the assistive-glasses control loop.               *)
(*                                                                         *)
(*   - closest_color      weighted nearest-neighbour classification        *)
(*   - beep_for_distance  BEEP_TABLE scan, delay, buzzer pulse             *)
(*   - on_button          the interrupt callback that flips `active`       *)
(*   - setup_gpio, main   hardware setup, the loop, try/except/finally     *)
(*                                                                         *)
(* Units: distances are whole centimetres (the floor of the measured       *)
(* value: every BEEP_TABLE threshold is a whole number, so d >= t and      *)
(* floor(d) >= t agree), delays are hundredths of a second (1.25 s = 125), *)
(* debounce time is milliseconds.                                          *)
(*                                                                         *)
(* closest_color computes in Python floats, i.e. IEEE 754 binary64 with    *)
(* round-to-nearest-even.  The model computes the same values bit for bit: *)
(* a double is << M, E >> with value M * 2^E, M a 53-bit natural held as a *)
(* little-endian sequence of limbs (TLC integers are 32 bits wide).        *)
(***************************************************************************)
EXTENDS Integers, Sequences, FiniteSets, TLC

VARIABLES
    pc,          \* position of the main thread in setup_gpio() / main()
    active,      \* main.py:84   global flag toggled by on_button
    buzzer,      \* main.py:85   "None" | "off" (PWM created) | "on" (started)
    gpio,        \* "unset" | "configured" | "cleaned"
    armed,       \* TRUE while the falling-edge event detect is registered
    cleanups,    \* number of GPIO.cleanup() calls made
    exit_kind,   \* "running" | "interrupt" | "error": why main() is leaving
    rgb,         \* main.py:246  local rgb
    color_name,  \* main.py:247  local color_name
    dist,        \* main.py:252  local dist
    wait_time,   \* main.py:209  local wait_time of beep_for_distance
    log,         \* port calls made by the iteration in flight, in order
    since,       \* ms elapsed since the last accepted button edge (saturating)
    nEdges,      \* falling edges seen on BUTTON_PIN
    nAccepted,   \* edges that passed the debounce and ran on_button
    echo,        \* level of the ECHO input line, 0 or 1
    assigned,    \* locals of distance_cm() assigned so far in this call
    fault,       \* failure of the call last made: "none", or what went wrong
    arg,         \* pure-function harness: the call made
    ret          \* pure-function harness: the value(s) returned

vars == << pc, active, buzzer, gpio, armed, cleanups, exit_kind, rgb,
           color_name, dist, wait_time, log, since, nEdges, nAccepted,
           echo, assigned, fault, arg, ret >>

progVars == << pc, active, buzzer, gpio, armed, cleanups, exit_kind, rgb,
               color_name, dist, wait_time, log, since, nEdges, nAccepted,
               echo, assigned, fault >>

-----------------------------------------------------------------------------
(* Bounds of the model *)

MaxEdges == 3      \* button edges explored
TickMs   == 100    \* granularity of the debounce clock, in ms
ChanStep == 100    \* grid step of the colour samples
MaxDist  == 200    \* largest distance sample, in cm
MaxNeg   == 5      \* magnitude of the most negative distance sample

-----------------------------------------------------------------------------
(* Program constants *)

COLOR_MAP ==
    << << "red",    << 255,   0,   0 >> >>,
       << "orange", << 255, 128,   0 >> >>,
       << "yellow", << 255, 255,   0 >> >>,
       << "green",  <<   0, 255,   0 >> >>,
       << "blue",   <<   0,   0, 255 >> >>,
       << "indigo", << 127,   0, 255 >> >>,
       << "violet", << 255,   0, 255 >> >>,
       << "white",  << 255, 255, 255 >> >> >>

\* BEEP_TABLE with the delays of its last two entries exchanged
BEEP_TABLE_exchanged ==
    << << 150, 125 >>,
       << 120, 100 >>,
       <<  90,  75 >>,
       <<  60,  50 >>,
       <<  30,   7 >>,
       <<   0,  25 >> >>

BEEP_TABLE ==
    << << 150, 125 >>,
       << 120, 100 >>,
       <<  90,  75 >>,
       <<  60,  50 >>,
       <<  30,  25 >>,
       <<   0,   7 >> >>

BOUNCETIME == 200  \* bouncetime=200 of add_event_detect
DUTY       == 10   \* buzzer.start(10)
None       == << >>   \* wait_time = None; a resolved delay t is << t >>


-----------------------------------------------------------------------------
(* Naturals wider than 32 bits: little-endian sequences of limbs *)

LimbBits == 14
Base     == 2 ^ LimbBits
MantBits == 53     \* precision of binary64

Limb(a, i) == IF i >= 1 /\ i <= Len(a) THEN a[i] ELSE 0

RECURSIVE Trim(_)
Trim(a) ==
    IF a # << >> /\ a[Len(a)] = 0 THEN Trim(SubSeq(a, 1, Len(a) - 1)) ELSE a

RECURSIVE SmallBitLen(_)
SmallBitLen(n) == IF n = 0 THEN 0 ELSE 1 + SmallBitLen(n \div 2)

BitLen(a) ==
    LET t == Trim(a)
    IN  IF t = << >> THEN 0
        ELSE (Len(t) - 1) * LimbBits + SmallBitLen(t[Len(t)])

RECURSIVE AddFrom(_, _, _, _)
AddFrom(a, b, i, c) ==
    IF i > Len(a) /\ i > Len(b)
    THEN IF c = 0 THEN << >> ELSE << c >>
    ELSE LET t == Limb(a, i) + Limb(b, i) + c
         IN  << t % Base >> \o AddFrom(a, b, i + 1, t \div Base)

Add(a, b) == AddFrom(a, b, 1, 0)

RECURSIVE SubFrom(_, _, _, _)
SubFrom(a, b, i, c) ==
    IF i > Len(a) THEN << >>
    ELSE LET t == Limb(a, i) - Limb(b, i) - c
         IN  IF t < 0 THEN << t + Base >> \o SubFrom(a, b, i + 1, 1)
             ELSE << t >> \o SubFrom(a, b, i + 1, 0)

\* a - b for a >= b
Sub(a, b) == Trim(SubFrom(a, b, 1, 0))

RECURSIVE CmpFrom(_, _, _)
CmpFrom(a, b, i) ==
    IF i = 0 THEN 0
    ELSE IF Limb(a, i) < Limb(b, i) THEN -1
    ELSE IF Limb(a, i) > Limb(b, i) THEN 1
    ELSE CmpFrom(a, b, i - 1)

\* -1, 0, 1 as a < b, a = b, a > b
Cmp(a, b) == CmpFrom(a, b, IF Len(a) > Len(b) THEN Len(a) ELSE Len(b))

RECURSIVE MulSmallFrom(_, _, _, _)
MulSmallFrom(a, k, i, c) ==
    IF i > Len(a)
    THEN IF c = 0 THEN << >> ELSE << c >>
    ELSE LET t == a[i] * k + c
         IN  << t % Base >> \o MulSmallFrom(a, k, i + 1, t \div Base)

\* a * k for 0 <= k <= Base
MulSmall(a, k) == MulSmallFrom(a, k, 1, 0)

ShiftLimbs(a, n) == [i \in 1..n |-> 0] \o a

RECURSIVE MulFrom(_, _, _)
MulFrom(a, b, j) ==
    IF j > Len(b) THEN << >>
    ELSE Add(ShiftLimbs(MulSmall(a, b[j]), j - 1), MulFrom(a, b, j + 1))

Mul(a, b) == Trim(MulFrom(a, b, 1))

\* a * 2^n
ShiftLeft(a, n) ==
    Trim(ShiftLimbs(MulSmall(a, 2 ^ (n % LimbBits)), n \div LimbBits))

\* a \div 2^n
ShiftRight(a, n) ==
    LET q == n \div LimbBits
        r == n % LimbBits
        p == 2 ^ r
    IN  IF Len(a) <= q THEN << >>
        ELSE Trim([i \in 1..(Len(a) - q) |->
                     (Limb(a, i + q) \div p)
                     + (Limb(a, i + q + 1) % p) * 2 ^ (LimbBits - r)])

\* bit i of a, bit 0 the least significant
Bit(a, i) == (Limb(a, (i \div LimbBits) + 1) \div 2 ^ (i % LimbBits)) % 2

\* some bit among the n lowest is set
AnyLow(a, n) == \E i \in 0..(n - 1) : Bit(a, i) = 1

RECURSIVE DivSmallFrom(_, _, _, _)
\* long division of limbs i..1 by k: << quotient limbs, remainder >>
DivSmallFrom(a, k, i, rem) ==
    IF i = 0 THEN << << >>, rem >>
    ELSE LET cur  == rem * Base + a[i]
             rest == DivSmallFrom(a, k, i - 1, cur % k)
         IN  << Append(rest[1], cur \div k), rest[2] >>

\* << a \div k, a % k >> for 0 < k <= 2^16
DivSmall(a, k) ==
    LET r == DivSmallFrom(a, k, Len(a), 0) IN << Trim(r[1]), r[2] >>

RECURSIVE SqrtFrom(_, _, _, _)
\* restoring square root, two bits of n per step from bit pair i down:
\* << floor(sqrt(n)), n - floor(sqrt(n))^2 >>
SqrtFrom(n, i, root, rem) ==
    IF i < 0 THEN << root, rem >>
    ELSE LET r2    == Trim(Add(ShiftLeft(rem, 2),
                               << 2 * Bit(n, 2 * i + 1) + Bit(n, 2 * i) >>))
             trial == Add(ShiftLeft(root, 2), << 1 >>)
         IN  IF Cmp(r2, trial) >= 0
             THEN SqrtFrom(n, i - 1, Add(ShiftLeft(root, 1), << 1 >>),
                           Sub(r2, trial))
             ELSE SqrtFrom(n, i - 1, ShiftLeft(root, 1), r2)

ISqrt(n) == SqrtFrom(n, (BitLen(n) + 1) \div 2, << >>, << >>)

-----------------------------------------------------------------------------
(* IEEE 754 binary64, non-negative values, round to nearest even *)

FZero == << << >>, 0 >>

\* float("inf"): an exponent above that of every finite double
Inf == << ShiftLeft(<< 1 >>, MantBits - 1), 1024 >>

\* the double nearest to n * 2^e (+ a positive amount below one unit of n
\* when sticky), ties to the even mantissa
Round(n, e, sticky) ==
    LET len == BitLen(n)
    IN  IF len = 0 THEN FZero
        ELSE IF len <= MantBits
        THEN << ShiftLeft(n, MantBits - len), e - (MantBits - len) >>
        ELSE LET sh == len - MantBits
                 q  == ShiftRight(n, sh)
                 up == /\ Bit(n, sh - 1) = 1
                       /\ \/ sticky
                          \/ AnyLow(n, sh - 1)
                          \/ Bit(q, 0) = 1
                 m  == IF up THEN Trim(Add(q, << 1 >>)) ELSE q
             IN  IF BitLen(m) > MantBits
                 THEN << ShiftRight(m, 1), e + sh + 1 >>
                 ELSE << m, e + sh >>

\* int -> float, exact for |k| < 2^53
fl_int(k) == Round(Trim(<< k >>), 0, FALSE)

\* a decimal literal num/den, e.g. 1.20 = 120/100: the nearest double
fl_literal(num, den) ==
    LET qr == DivSmall(ShiftLeft(<< num >>, 60), den)
    IN  Round(qr[1], -60, qr[2] # 0)

fl_mul(x, y) ==
    IF x = FZero \/ y = FZero THEN FZero
    ELSE Round(Mul(x[1], y[1]), x[2] + y[2], FALSE)

fl_add(x, y) ==
    IF x = FZero THEN y
    ELSE IF y = FZero THEN x
    ELSE LET e == IF x[2] < y[2] THEN x[2] ELSE y[2]
         IN  Round(Add(ShiftLeft(x[1], x[2] - e), ShiftLeft(y[1], y[2] - e)),
                   e, FALSE)

\* math.sqrt, correctly rounded
fl_sqrt(x) ==
    IF x = FZero THEN FZero
    ELSE LET odd == x[2] % 2
             sr  == ISqrt(ShiftLeft(x[1], 56 + odd))
         IN  Round(sr[1], (x[2] - 56 - odd) \div 2, sr[2] # << >>)

\* x < y
fl_less(x, y) ==
    IF y = FZero THEN FALSE
    ELSE IF x = FZero THEN TRUE
    ELSE \/ x[2] < y[2]
         \/ x[2] = y[2] /\ Cmp(x[1], y[1]) < 0

-----------------------------------------------------------------------------
(* Colour classification parameters, main.py:47-62 *)

RED_W   == fl_literal(120, 100)    \* 1.20
GREEN_W == fl_literal(35, 100)     \* 0.35
BLUE_W  == fl_literal(5, 100)      \* 0.05

-----------------------------------------------------------------------------
(* closest_color, main.py:108-132 *)

Abs(k) == IF k < 0 THEN -k ELSE k

\* (delta * w) ** 2 of lines 122-126.  A double and its negation round alike
\* and have the same square, so the magnitude of delta is used.
weighted_sq(delta, w) ==
    LET d == fl_mul(fl_int(Abs(delta)), w) IN fl_mul(d, d)

\* dist of line 126 with the green term left out of the sum
weighted_dist_no_green(ref, sample) ==
    fl_sqrt(fl_add(weighted_sq(ref[1] - sample[1], RED_W),
                   weighted_sq(ref[3] - sample[3], BLUE_W)))

\* dist of line 126 for one reference triple
weighted_dist(ref, sample) ==
    fl_sqrt(fl_add(fl_add(weighted_sq(ref[1] - sample[1], RED_W),
                          weighted_sq(ref[2] - sample[2], GREEN_W)),
                   weighted_sq(ref[3] - sample[3], BLUE_W)))

\* the comparison of line 128 the wrong way round
farther(d, best) == fl_less(best, d)

\* the comparison of line 128
closer(d, best) == fl_less(d, best)

RECURSIVE color_loop(_, _, _, _)
\* the for loop of lines 120-130, from entry i on
color_loop(sample, i, best_name, best_dist) ==
    IF i > Len(COLOR_MAP) THEN best_name
    ELSE LET d == weighted_dist(COLOR_MAP[i][2], sample)
         IN  IF closer(d, best_dist)
             THEN color_loop(sample, i + 1, COLOR_MAP[i][1], d)
             ELSE color_loop(sample, i + 1, best_name, best_dist)

closest_color(sample) == color_loop(sample, 1, "unknown", Inf)

-----------------------------------------------------------------------------
(* beep_for_distance, main.py:205-223: the table scan *)

\* BEEP_TABLE read as ceilings instead of floors
below_threshold(d, threshold) == d <= threshold

\* the comparison of line 212
reaches(d, threshold) == d >= threshold

RECURSIVE scan_beep_table(_, _)
\* the for loop of lines 211-214, from entry i on; None when nothing matches
scan_beep_table(d, i) ==
    IF i > Len(BEEP_TABLE) THEN None
    ELSE IF reaches(d, BEEP_TABLE[i][1]) THEN << BEEP_TABLE[i][2] >>
    ELSE scan_beep_table(d, i + 1)

\* wait_time as resolved by lines 209-214
beep_wait_time(d) == scan_beep_table(d, 1)

\* index of the BEEP_TABLE entry that line 212 matches, 0 when none does
RECURSIVE band_from(_, _)
band_from(d, i) ==
    IF i > Len(BEEP_TABLE) THEN 0
    ELSE IF reaches(d, BEEP_TABLE[i][1]) THEN i
    ELSE band_from(d, i + 1)

-----------------------------------------------------------------------------
(* on_button and the debounce of add_event_detect *)

\* a handler that clears the flag instead of toggling it
on_button_clear(a) == FALSE

\* main.py:176  active = not active
on_button(a) == ~a

\* an event detect registered without bouncetime
accepts_always(s) == TRUE

\* bouncetime=200: an edge runs the callback only if more than BOUNCETIME
\* ms have passed since the last edge that ran it
accepts(s) == s > BOUNCETIME

-----------------------------------------------------------------------------
(* Inputs *)

\* samples the colour sensor port returns to the loop
RgbInputs == { << 0, 255, 0 >>, << 255, 0, 0 >>, << 200, 64, 30 >> }

\* distances the ultrasonic port returns to the loop, in cm
DistInputs == { -MaxNeg, 0, 20, 25, 45, 75, 100, 200 }

\* channel values of the grid of classifier samples
ChanSamples == { c \in 0..255 : c % ChanStep = 0 }

\* samples at which two reference colours are at the same weighted distance:
\* red/orange (g = 64), indigo/violet (r = 191), green/blue
TieSamples ==
    { << 255, 64, 0 >>, << 200, 64, 30 >>, << 191, 0, 255 >>,
      << 191, 30, 200 >>, << 0, 125, 5 >>, << 0, 126, 54 >>,
      << 1, 126, 54 >>, << 1, 129, 201 >> }

\* samples classify is called on: the grid, the reference colours, the ties
RgbSamples ==
    { << r, g, b >> : r \in ChanSamples, g \in ChanSamples, b \in ChanSamples }
    \cup { COLOR_MAP[i][2] : i \in 1..Len(COLOR_MAP) }
    \cup TieSamples

\* closest_color over the samples the colour sensor port returns
classified == [ s \in RgbInputs |-> closest_color(s) ]

DistSamples == (-MaxNeg)..MaxDist

\* positions of main() inside the try block (lines 238-253)
InTry == { "check", "idle", "color", "classify", "speak", "dist", "echo_low",
           "echo_high", "compute", "resolve", "wait", "start", "pulse",
           "stop" }

\* positions inside setup_gpio() and the print of line 236, outside the try
InSetup == { "setup_pins", "setup_button", "setup_settle" }

\* calls of the loop that can raise: the I2C read (OSError) and
\* subprocess.run without an espeak binary (FileNotFoundError); the
\* UnboundLocalError of distance_cm is part of MeasureDistance
CanRaise == { "color", "speak" }

\* the failure raised by the call at position p
RaisedAt(p) == IF p = "color" THEN "color_read" ELSE "espeak_missing"

\* exit statuses of the espeak child: success, failure
EspeakStatus == { 0, 1 }

\* positions at which the main thread is inside a blocking call: the idle
\* sleep, espeak, the two echo polling loops, the delay sleep, the pulse
Blocking == { "idle", "speak", "echo_low", "echo_high", "wait", "pulse" }

-----------------------------------------------------------------------------
(* Initial state: module globals of lines 84-85, main() not yet entered *)

ProgInit ==
    /\ pc = "setup_pins"
    /\ active = TRUE
    /\ buzzer = "None"
    /\ gpio = "unset"
    /\ armed = FALSE
    /\ cleanups = 0
    /\ exit_kind = "running"
    /\ rgb = << 0, 0, 0 >>
    /\ color_name = "unknown"
    /\ dist = 0
    /\ wait_time = None
    /\ log = << >>
    /\ since = BOUNCETIME + TickMs
    /\ nEdges = 0
    /\ nAccepted = 0
    /\ echo = 0
    /\ assigned = { }
    /\ fault = "none"

Init ==
    /\ ProgInit
    /\ arg = << "none" >>
    /\ ret = << >>

-----------------------------------------------------------------------------
(* setup_gpio, main.py:139-168 *)

\* lines 145-151: pin modes, buzzer = GPIO.PWM(BUZZER_PIN, 440)
SetupPins ==
    /\ pc = "setup_pins"
    /\ gpio' = "configured"
    /\ buzzer' = "off"
    /\ pc' = "setup_button"
    /\ UNCHANGED << active, armed, cleanups, exit_kind, rgb, color_name, dist,
                    wait_time, log, since, nEdges, nAccepted, arg, ret,
                    echo, assigned, fault >>

\* lines 153-165: button input, add_event_detect(..., callback=on_button)
SetupButton ==
    /\ pc = "setup_button"
    /\ armed' = TRUE
    /\ pc' = "setup_settle"
    /\ UNCHANGED << active, buzzer, gpio, cleanups, exit_kind, rgb, color_name,
                    dist, wait_time, log, since, nEdges, nAccepted, arg, ret,
                    echo, assigned, fault >>

\* lines 167-168 and the print of line 236; main() then enters the try
SetupSettle ==
    /\ pc = "setup_settle"
    /\ pc' = "check"
    /\ UNCHANGED << active, buzzer, gpio, armed, cleanups, exit_kind, rgb,
                    color_name, dist, wait_time, log, since, nEdges, nAccepted,
                    arg, ret,
                    echo, assigned, fault >>

-----------------------------------------------------------------------------
(* The button: edges, debounce, on_button (main.py:160-165, 171-176) *)

\* a handler that also silences the buzzer when it toggles the flag
ButtonEdgeSilencing ==
    /\ armed
    /\ pc # "exited"
    /\ nEdges < MaxEdges
    /\ nEdges' = nEdges + 1
    /\ IF accepts(since)
       THEN /\ active' = on_button(active)
            /\ buzzer' = IF buzzer = "on" THEN "off" ELSE buzzer
            /\ since' = 0
            /\ nAccepted' = nAccepted + 1
       ELSE UNCHANGED << active, buzzer, since, nAccepted >>
    /\ UNCHANGED << pc, gpio, armed, cleanups, exit_kind, rgb, color_name,
                    dist, wait_time, log, arg, ret, echo, assigned, fault >>

\* a falling edge on BUTTON_PIN; the callback runs in the event thread, at
\* any point of the main thread
ButtonEdge ==
    /\ armed
    /\ pc # "exited"
    /\ nEdges < MaxEdges
    /\ nEdges' = nEdges + 1
    /\ IF accepts(since)
       THEN /\ active' = on_button(active)
            /\ since' = 0
            /\ nAccepted' = nAccepted + 1
       ELSE UNCHANGED << active, since, nAccepted >>
    /\ UNCHANGED << pc, buzzer, gpio, armed, cleanups, exit_kind, rgb,
                    color_name, dist, wait_time, log, arg, ret,
                    echo, assigned, fault >>

\* time passes; `since` stops counting once it is past the debounce window
Tick ==
    /\ pc # "exited"
    /\ since <= BOUNCETIME
    /\ since' = since + TickMs
    /\ UNCHANGED << pc, active, buzzer, gpio, armed, cleanups, exit_kind, rgb,
                    color_name, dist, wait_time, log, nEdges, nAccepted,
                    arg, ret,
                    echo, assigned, fault >>

-----------------------------------------------------------------------------
(* main, main.py:230-259: the loop inside the try *)

\* line 241 without its test: the iteration starts whatever active is
LoopCheckUntested ==
    /\ pc = "check"
    /\ pc' = "color"
    /\ log' = << >>
    /\ UNCHANGED << active, buzzer, gpio, armed, cleanups, exit_kind, rgb,
                    color_name, dist, wait_time, since, nEdges, nAccepted,
                    arg, ret,
                    echo, assigned, fault >>

\* line 241: if not active -> the idle branch, else the iteration starts
LoopCheck ==
    /\ pc = "check"
    /\ IF active
       THEN pc' = "color" /\ log' = << >>
       ELSE pc' = "idle" /\ log' = log
    /\ UNCHANGED << active, buzzer, gpio, armed, cleanups, exit_kind, rgb,
                    color_name, dist, wait_time, since, nEdges, nAccepted,
                    arg, ret,
                    echo, assigned, fault >>

\* lines 242-243: time.sleep(0.1); continue
IdleWait ==
    /\ pc = "idle"
    /\ pc' = "check"
    /\ UNCHANGED << active, buzzer, gpio, armed, cleanups, exit_kind, rgb,
                    color_name, dist, wait_time, log, since, nEdges, nAccepted,
                    arg, ret,
                    echo, assigned, fault >>

\* line 246: rgb = color_sensor.color_rgb_bytes
ReadColor ==
    /\ pc = "color"
    /\ \E s \in RgbInputs :
          /\ rgb' = s
          /\ log' = Append(log, << "color_read", s >>)
    /\ pc' = "classify"
    /\ UNCHANGED << active, buzzer, gpio, armed, cleanups, exit_kind,
                    color_name, dist, wait_time, since, nEdges, nAccepted,
                    arg, ret,
                    echo, assigned, fault >>

\* line 247: color_name = closest_color(rgb)
Classify ==
    /\ pc = "classify"
    /\ color_name' = classified[rgb]
    /\ pc' = "speak"
    /\ UNCHANGED << active, buzzer, gpio, armed, cleanups, exit_kind, rgb,
                    dist, wait_time, log, since, nEdges, nAccepted, arg, ret,
                    echo, assigned, fault >>

\* line 249: speak(color_name) with espeak found; subprocess.run is called
\* without check=True and its result is dropped, so a failing exit status
\* returns like a successful one
Speak ==
    /\ pc = "speak"
    /\ \E rc \in EspeakStatus :
          fault' = IF rc = 0 THEN "none" ELSE "espeak_status"
    /\ log' = Append(log, << "speak", color_name >>)
    /\ pc' = "dist"
    /\ UNCHANGED << active, buzzer, gpio, armed, cleanups, exit_kind, rgb,
                    color_name, dist, wait_time, since, nEdges, nAccepted,
                    arg, ret, echo, assigned >>

\* line 252 calls distance_cm(); lines 190-192: the trigger pulse.  The
\* locals pulse_start and pulse_end of the new call are unassigned.
TriggerEcho ==
    /\ pc = "dist"
    /\ assigned' = { }
    /\ pc' = "echo_low"
    /\ UNCHANGED << active, buzzer, gpio, armed, cleanups, exit_kind, rgb,
                    color_name, dist, wait_time, log, since, nEdges, nAccepted,
                    arg, ret, echo, fault >>

\* the sensor (or noise) changes the level of the ECHO line, at any moment
\* of the call
EchoFlip ==
    /\ pc \in { "dist", "echo_low", "echo_high" }
    /\ echo' = 1 - echo
    /\ UNCHANGED << pc, active, buzzer, gpio, armed, cleanups, exit_kind, rgb,
                    color_name, dist, wait_time, log, since, nEdges, nAccepted,
                    arg, ret, assigned, fault >>

\* lines 194-195: while GPIO.input(ECHO) == 0: pulse_start = time.time()
PollLow ==
    /\ pc = "echo_low"
    /\ IF echo = 0
       THEN /\ assigned' = assigned \cup { "pulse_start" }
            /\ pc' = "echo_low"
       ELSE /\ assigned' = assigned
            /\ pc' = "echo_high"
    /\ UNCHANGED << active, buzzer, gpio, armed, cleanups, exit_kind, rgb,
                    color_name, dist, wait_time, log, since, nEdges, nAccepted,
                    arg, ret, echo, fault >>

\* a second polling loop that gives up after a timeout
PollHighTimeout ==
    /\ pc = "echo_high"
    /\ \/ /\ echo = 1
          /\ assigned' = assigned \cup { "pulse_end" }
          /\ pc' = "echo_high"
       \/ /\ assigned' = assigned
          /\ pc' = "compute"
    /\ UNCHANGED << active, buzzer, gpio, armed, cleanups, exit_kind, rgb,
                    color_name, dist, wait_time, log, since, nEdges, nAccepted,
                    arg, ret, echo, fault >>

\* lines 197-198: while GPIO.input(ECHO) == 1: pulse_end = time.time()
PollHigh ==
    /\ pc = "echo_high"
    /\ IF echo = 1
       THEN /\ assigned' = assigned \cup { "pulse_end" }
            /\ pc' = "echo_high"
       ELSE /\ assigned' = assigned
            /\ pc' = "compute"
    /\ UNCHANGED << active, buzzer, gpio, armed, cleanups, exit_kind, rgb,
                    color_name, dist, wait_time, log, since, nEdges, nAccepted,
                    arg, ret, echo, fault >>

\* lines 200-202 and the assignment of line 252: duration = pulse_end -
\* pulse_start raises UnboundLocalError when either local was never
\* assigned; otherwise dist is the duration scaled to centimetres
MeasureDistance ==
    /\ pc = "compute"
    /\ IF { "pulse_start", "pulse_end" } \subseteq assigned
       THEN /\ \E d \in DistInputs :
                  /\ dist' = d
                  /\ log' = Append(log, << "distance", d >>)
            /\ pc' = "resolve"
            /\ UNCHANGED << exit_kind, fault >>
       ELSE /\ exit_kind' = "error"
            /\ fault' = "unbound_local"
            /\ pc' = "finally"
            /\ UNCHANGED << dist, log >>
    /\ assigned' = { }
    /\ UNCHANGED << active, buzzer, gpio, armed, cleanups, rgb, color_name,
                    wait_time, since, nEdges, nAccepted, arg, ret, echo >>

\* lines 209-217: scan BEEP_TABLE; return at once when nothing matched
ResolveWait ==
    /\ pc = "resolve"
    /\ wait_time' = beep_wait_time(dist)
    /\ pc' = IF wait_time' = None THEN "check" ELSE "wait"
    /\ UNCHANGED << active, buzzer, gpio, armed, cleanups, exit_kind, rgb,
                    color_name, dist, log, since, nEdges, nAccepted, arg, ret,
                    echo, assigned, fault >>

\* a beep_for_distance that goes to the pulse without the sleep of line 219
WaitDelaySkipped ==
    /\ pc = "wait"
    /\ pc' = "start"
    /\ UNCHANGED << active, buzzer, gpio, armed, cleanups, exit_kind, rgb,
                    color_name, dist, wait_time, log, since, nEdges, nAccepted,
                    arg, ret, echo, assigned, fault >>

\* line 219: time.sleep(wait_time)
WaitDelay ==
    /\ pc = "wait"
    /\ log' = Append(log, << "sleep", wait_time[1] >>)
    /\ pc' = "start"
    /\ UNCHANGED << active, buzzer, gpio, armed, cleanups, exit_kind, rgb,
                    color_name, dist, wait_time, since, nEdges, nAccepted,
                    arg, ret,
                    echo, assigned, fault >>

\* line 221: buzzer.start(10)
BuzzerStart ==
    /\ pc = "start"
    /\ buzzer' = "on"
    /\ log' = Append(log, << "buzzer_start", DUTY >>)
    /\ pc' = "pulse"
    /\ UNCHANGED << active, gpio, armed, cleanups, exit_kind, rgb, color_name,
                    dist, wait_time, since, nEdges, nAccepted, arg, ret,
                    echo, assigned, fault >>

\* line 222: time.sleep(0.1) with the buzzer sounding
PulseHold ==
    /\ pc = "pulse"
    /\ pc' = "stop"
    /\ UNCHANGED << active, buzzer, gpio, armed, cleanups, exit_kind, rgb,
                    color_name, dist, wait_time, log, since, nEdges, nAccepted,
                    arg, ret,
                    echo, assigned, fault >>

\* line 223: buzzer.stop(); beep_for_distance returns, the loop repeats
BuzzerStop ==
    /\ pc = "stop"
    /\ buzzer' = "off"
    /\ log' = Append(log, << "buzzer_stop" >>)
    /\ pc' = "check"
    /\ UNCHANGED << active, gpio, armed, cleanups, exit_kind, rgb, color_name,
                    dist, wait_time, since, nEdges, nAccepted, arg, ret,
                    echo, assigned, fault >>

-----------------------------------------------------------------------------
(* main, main.py:230-259: leaving the loop *)

\* Ctrl-C while main() is in setup_gpio() or at the print: these lines are
\* outside the try, so KeyboardInterrupt leaves main() at once
InterruptInSetup ==
    /\ pc \in InSetup
    /\ exit_kind' = "interrupt"
    /\ pc' = "exited"
    /\ UNCHANGED << active, buzzer, gpio, armed, cleanups, rgb, color_name,
                    dist, wait_time, log, since, nEdges, nAccepted, arg, ret,
                    echo, assigned, fault >>

\* a GPIO call of setup_gpio() raises (RuntimeError), again outside the try
ErrorInSetup ==
    /\ pc \in InSetup
    /\ exit_kind' = "error"
    /\ fault' = "setup"
    /\ pc' = "exited"
    /\ UNCHANGED << active, buzzer, gpio, armed, cleanups, rgb, color_name,
                    dist, wait_time, log, since, nEdges, nAccepted, arg, ret,
                    echo, assigned >>

\* a KeyboardInterrupt that is held back while a blocking call is running
InterruptBetweenCalls ==
    /\ pc \in InTry \ Blocking
    /\ exit_kind' = "interrupt"
    /\ pc' = "except"
    /\ UNCHANGED << active, buzzer, gpio, armed, cleanups, rgb, color_name,
                    dist, wait_time, log, since, nEdges, nAccepted, arg, ret,
                    echo, assigned, fault >>

\* Ctrl-C at any step of the loop: lands in `except KeyboardInterrupt`
InterruptInLoop ==
    /\ pc \in InTry
    /\ exit_kind' = "interrupt"
    /\ pc' = "except"
    /\ UNCHANGED << active, buzzer, gpio, armed, cleanups, rgb, color_name,
                    dist, wait_time, log, since, nEdges, nAccepted, arg, ret,
                    echo, assigned, fault >>

\* a loop that caught the exception and went on with the next iteration
ErrorInLoopSwallowed ==
    /\ pc \in CanRaise
    /\ fault' = RaisedAt(pc)
    /\ pc' = "check"
    /\ UNCHANGED << active, buzzer, gpio, armed, cleanups, exit_kind, rgb,
                    color_name, dist, wait_time, log, since, nEdges, nAccepted,
                    arg, ret, echo, assigned >>

\* any other exception in the loop: no except clause matches, finally runs
ErrorInLoop ==
    /\ pc \in CanRaise
    /\ exit_kind' = "error"
    /\ fault' = RaisedAt(pc)
    /\ pc' = "finally"
    /\ UNCHANGED << active, buzzer, gpio, armed, cleanups, rgb, color_name,
                    dist, wait_time, log, since, nEdges, nAccepted, arg, ret,
                    echo, assigned >>

\* lines 255-256: print("\nShutting down...")
ExceptHandler ==
    /\ pc = "except"
    /\ pc' = "finally"
    /\ UNCHANGED << active, buzzer, gpio, armed, cleanups, exit_kind, rgb,
                    color_name, dist, wait_time, log, since, nEdges, nAccepted,
                    arg, ret,
                    echo, assigned, fault >>

\* lines 258-259: GPIO.cleanup(), which also removes the event detect;
\* buzzer.stop() is not called here
Finally ==
    /\ pc = "finally"
    /\ cleanups' = cleanups + 1
    /\ gpio' = "cleaned"
    /\ armed' = FALSE
    /\ pc' = "exited"
    /\ UNCHANGED << active, buzzer, exit_kind, rgb, color_name, dist,
                    wait_time, log, since, nEdges, nAccepted, arg, ret,
                    echo, assigned, fault >>

-----------------------------------------------------------------------------
(* Specification of the program *)

Next ==
    \/ SetupPins
    \/ SetupButton
    \/ SetupSettle
    \/ ButtonEdge
    \/ Tick
    \/ LoopCheck
    \/ IdleWait
    \/ ReadColor
    \/ Classify
    \/ Speak
    \/ TriggerEcho
    \/ EchoFlip
    \/ PollLow
    \/ PollHigh
    \/ MeasureDistance
    \/ ResolveWait
    \/ WaitDelay
    \/ BuzzerStart
    \/ PulseHold
    \/ BuzzerStop
    \/ InterruptInSetup
    \/ ErrorInSetup
    \/ InterruptInLoop
    \/ ErrorInLoop
    \/ ExceptHandler
    \/ Finally

Spec == Init /\ [][Next]_vars

\* the steps of the main thread that follow from the code alone (no exception)
MainThread ==
    \/ SetupPins \/ SetupButton \/ SetupSettle \/ LoopCheck \/ IdleWait
    \/ ReadColor \/ Classify \/ Speak \/ TriggerEcho \/ PollLow \/ PollHigh
    \/ MeasureDistance \/ ResolveWait \/ WaitDelay \/ BuzzerStart
    \/ PulseHold \/ BuzzerStop \/ ExceptHandler \/ Finally

\* the ultrasonic sensor responds: after the trigger ECHO rises, later it
\* falls, and the polling loops of lines 194-198 get to see each level
EchoResponds ==
    /\ WF_vars(EchoFlip /\ pc = "echo_low" /\ echo = 0)
    /\ WF_vars(EchoFlip /\ pc = "echo_high" /\ echo = 1)
    /\ SF_vars(PollLow /\ pc' = "echo_high")
    /\ SF_vars(PollHigh /\ pc' = "compute")

\* the main thread keeps running (every call it makes returns) and the
\* sensor responds
FairSpec == Spec /\ WF_vars(MainThread) /\ EchoResponds

-----------------------------------------------------------------------------
(* Specification of the pure functions: one call per behaviour *)

PureCalls ==
    { << "closest_color", s >> : s \in RgbSamples }
    \cup { << "beep_wait_time", d1, d2 >> : d1 \in DistSamples,
                                            d2 \in DistSamples }

InitPure ==
    /\ ProgInit
    /\ arg \in PureCalls
    /\ ret = << >>

\* closest_color(arg[2])
CallClosestColor ==
    /\ arg[1] = "closest_color"
    /\ ret = << >>
    /\ ret' = << closest_color(arg[2]) >>
    /\ UNCHANGED << progVars, arg >>

\* the table scan of beep_for_distance on arg[2] and on arg[3]
CallBeepWaitTime ==
    /\ arg[1] = "beep_wait_time"
    /\ ret = << >>
    /\ ret' = << beep_wait_time(arg[2]), beep_wait_time(arg[3]) >>
    /\ UNCHANGED << progVars, arg >>

NextPure ==
    \/ CallClosestColor
    \/ CallBeepWaitTime

SpecPure == InitPure /\ [][NextPure]_vars

-----------------------------------------------------------------------------
(* Properties *)

Last(q) == q[Len(q)]

\* the iteration in flight has ended: the loop is back at line 241 having
\* made at least one port call
IterationDone == pc = "check" /\ log # << >>

\* the speech and buzzer calls of the iteration, in order
IsOutput(e) == e[1] \in { "speak", "sleep", "buzzer_start", "buzzer_stop" }
Outputs == SelectSeq(log, IsOutput)

\* positions inside beep_for_distance after a delay was resolved
InPulse == { "wait", "start", "pulse", "stop" }

\* C1 as stated: no colour read, speak, distance measurement or buzzer
\* start/stop is made by a step taken while active is false.
C1_NoPortCallWhileInactive ==
    [][ Len(log') > Len(log) => active ]_vars

\* C1 amended: when the test of line 241 finds active false the loop makes no
\* port call and does not touch the buzzer; it only sleeps and tests again.
C1_PausedTestOnlyIdles ==
    [][ /\ (pc = "check" /\ ~active /\ pc' # pc)
           => (pc' \in { "idle", "except" } /\ log' = log /\ buzzer' = buzzer)
        /\ pc = "idle"
           => (pc' \in { "idle", "check", "except" } /\ log' = log
               /\ buzzer' = buzzer) ]_vars

C1_Witness == pc = "idle" /\ ~active /\ nAccepted = 1

\* C2 as stated: the delay resolved is 1.25 s for 200 cm, 1.00 s for 100 cm,
\* 0.75 s for 75 cm, 0.50 s for 45 cm and 0.25 s for 20 cm.
C2_DelaysAsStated ==
    pc = "wait" =>
        /\ dist = 200 => wait_time = << 125 >>
        /\ dist = 100 => wait_time = << 100 >>
        /\ dist = 75  => wait_time = << 75 >>
        /\ dist = 45  => wait_time = << 50 >>
        /\ dist = 20  => wait_time = << 25 >>

\* C2 amended: the delay resolved is 1.25 s for 200 cm, 0.75 s for 100 cm,
\* 0.50 s for 75 cm, 0.25 s for 45 cm and 0.07 s for 20 cm.
C2_DelaysResolved ==
    pc = "wait" =>
        /\ dist = 200 => wait_time = << 125 >>
        /\ dist = 100 => wait_time = << 75 >>
        /\ dist = 75  => wait_time = << 50 >>
        /\ dist = 45  => wait_time = << 25 >>
        /\ dist = 20  => wait_time = << 7 >>

C2_Witness == pc = "wait" /\ dist = 100 /\ wait_time = << 75 >>

\* C3 as stated: an iteration that measured a negative distance resolves
\* the delay 0.07 s and ends with the buzzer pulse.
C3_NegativeGetsShortestDelay ==
    (IterationDone /\ dist < 0) =>
        /\ wait_time = << 7 >>
        /\ Last(log) = << "buzzer_stop" >>

\* C3 amended: for a negative distance no BEEP_TABLE entry matches; wait_time
\* stays None and beep_for_distance returns without sleeping and without
\* starting or stopping the buzzer.
C3_NegativeGetsNoFeedback ==
    /\ (pc \in InPulse) => dist >= 0
    /\ (IterationDone /\ dist < 0) =>
          /\ wait_time = None
          /\ Last(log) = << "distance", dist >>
          /\ buzzer = "off"

C3_Witness == IterationDone /\ dist < 0 /\ wait_time = None

\* C4 as stated: the iteration that read (0,255,0) and measured 25 cm calls
\* speak("green"), sleeps 0.25 s, starts the buzzer and stops it, in that order.
C4_GreenThenQuarterSecondPulse ==
    (IterationDone /\ rgb = << 0, 255, 0 >> /\ dist = 25) =>
        Outputs = << << "speak", "green" >>, << "sleep", 25 >>,
                     << "buzzer_start", DUTY >>, << "buzzer_stop" >> >>

\* C4 amended: the iteration that read (0,255,0) and measured 25 cm calls
\* speak("green"), sleeps 0.07 s, starts the buzzer and stops it, in that order.
C4_GreenThenShortestPulse ==
    (IterationDone /\ rgb = << 0, 255, 0 >> /\ dist = 25) =>
        Outputs = << << "speak", "green" >>, << "sleep", 7 >>,
                     << "buzzer_start", DUTY >>, << "buzzer_stop" >> >>

C4_Witness ==
    /\ IterationDone /\ rgb = << 0, 255, 0 >> /\ dist = 25
    /\ Last(log) = << "buzzer_stop" >>

\* C5: once hardware acquisition has begun, main() never ends without
\* GPIO.cleanup() having run exactly once.
C5_CleanupOnEveryExit ==
    (pc = "exited" /\ gpio # "unset") => cleanups = 1

\* C6: active starts true and every accepted edge flips it once: after n
\* accepted edges it is true iff n is even, wherever the loop is.
C6_ActiveIffEvenEdges ==
    active = (nAccepted % 2 = 0)

C6_Witness == nAccepted = 2 /\ active /\ pc = "pulse"

\* C7: a falling edge strictly inside the 200 ms window after an accepted
\* edge leaves active unchanged, and active never changes at any step other
\* than an edge outside the window (nothing is queued and applied later).
C7_EdgeInsideWindowSuppressed ==
    [][ /\ (nEdges' = nEdges + 1 /\ since < BOUNCETIME)
           => (active' = active /\ nAccepted' = nAccepted)
        /\ (active' # active)
           => (nEdges' = nEdges + 1 /\ since >= BOUNCETIME) ]_vars

C7_Witness ==
    nEdges = 2 /\ nAccepted = 1 /\ since < BOUNCETIME /\ ~active

\* a call of closest_color has returned
ClassifierReturned == arg[1] = "closest_color" /\ ret # << >>

\* C8: closest_color of the triple of a COLOR_MAP entry is that entry's name.
C8_ReferenceGetsOwnName ==
    ClassifierReturned =>
        \A i \in 1..Len(COLOR_MAP) :
            arg[2] = COLOR_MAP[i][2] => ret[1] = COLOR_MAP[i][1]

C8_Witness ==
    /\ arg = << "closest_color", << 255, 255, 255 >> >>
    /\ ret = << "white" >>

\* the weighted distance of the claim, squared and in exact arithmetic, with
\* the weights 1.20, 0.35, 0.05 as hundredths
ExactWeightedSq(ref, sample) ==
    LET dr == (ref[1] - sample[1]) * 120
        dg == (ref[2] - sample[2]) * 35
        db == (ref[3] - sample[3]) * 5
    IN  dr * dr + dg * dg + db * db

\* the earliest COLOR_MAP entry at the least weighted distance from sample
EarliestNearest(sample) ==
    CHOOSE i \in 1..Len(COLOR_MAP) :
        /\ \A j \in 1..Len(COLOR_MAP) :
              ExactWeightedSq(COLOR_MAP[i][2], sample)
                  <= ExactWeightedSq(COLOR_MAP[j][2], sample)
        /\ \A j \in 1..(i - 1) :
              ExactWeightedSq(COLOR_MAP[j][2], sample)
                  > ExactWeightedSq(COLOR_MAP[i][2], sample)

\* C9: closest_color returns the name of the earliest COLOR_MAP entry that
\* minimises the weighted distance (of two equidistant entries the earlier
\* one), and never "unknown".
C9_EarliestNearestEntry ==
    ClassifierReturned =>
        /\ ret[1] = COLOR_MAP[EarliestNearest(arg[2])][1]
        /\ ret[1] # "unknown"

\* both table scans of a call with two distances have returned
ScansReturned == arg[1] = "beep_wait_time" /\ ret # << >>

\* the band of d: the BEEP_TABLE entry its scan stops at, 0 when none
band(d) == band_from(d, 1)

\* C10: of two distances in different bands of BEEP_TABLE the smaller one
\* resolves a delay that is less than or equal to that of the larger one.
C10_CloserNeverSlower ==
    ( /\ ScansReturned
      /\ arg[2] < arg[3]
      /\ band(arg[2]) # 0
      /\ band(arg[3]) # 0
      /\ band(arg[2]) # band(arg[3]) )
    => ( /\ ret[1] # None
         /\ ret[2] # None
         /\ ret[1][1] <= ret[2][1] )

C10_Witness ==
    /\ arg = << "beep_wait_time", 29, 30 >>
    /\ ret = << << 7 >>, << 25 >> >>

\* C11: every buzzer.start of beep_for_distance is followed by buzzer.stop
\* before the process ends, also when an error or KeyboardInterrupt arrives
\* between the start and the stop: the process never ends with the PWM
\* started and not stopped.
C11_StartedBuzzerStoppedBeforeExit ==
    pc = "exited" => buzzer # "on"

\* C12: a failing speech invocation (espeak missing, or espeak exiting with
\* an error) is never fatal: whenever speak() is left other than by
\* KeyboardInterrupt, the iteration is running and goes on to distance_cm().
C12_SpeechFailureNotFatal ==
    [][ (pc = "speak" /\ pc' # "speak" /\ exit_kind' # "interrupt")
        => (pc' = "dist" /\ exit_kind' = "running") ]_vars

\* C13: when the colour sensor read fails the loop does not handle the
\* error: the iteration has made no port call (no speak, no buzzer pulse),
\* the loop is left for the finally clause with the error pending, and
\* GPIO.cleanup() has run exactly once when main() is left.
C13_ColorReadFailureEndsLoopCleanly ==
    fault = "color_read" =>
        /\ exit_kind = "error"
        /\ pc \in { "finally", "exited" }
        /\ log = << >>
        /\ buzzer = "off"
        /\ pc = "finally" => cleanups = 0
        /\ pc = "exited" => (cleanups = 1 /\ gpio = "cleaned")

C13_Witness ==
    pc = "exited" /\ fault = "color_read" /\ cleanups = 1 /\ nAccepted = 2

\* the floors of BEEP_TABLE are in descending order
DescendingFloors ==
    \A i, j \in 1..Len(BEEP_TABLE) :
        i < j => BEEP_TABLE[i][1] > BEEP_TABLE[j][1]

\* entry i is the first entry of BEEP_TABLE whose floor is <= d
FirstFloorAtMost(d, i) ==
    /\ BEEP_TABLE[i][1] <= d
    /\ \A j \in 1..(i - 1) : BEEP_TABLE[j][1] > d

\* C14: for every distance d >= 0 the scan resolves a delay, never None, and
\* it is the delay of the first entry of BEEP_TABLE, whose floors descend,
\* with floor <= d.
C14_NonNegativeResolvesFirstFloor ==
    (ScansReturned /\ arg[2] >= 0) =>
        /\ DescendingFloors
        /\ ret[1] # None
        /\ \E i \in 1..Len(BEEP_TABLE) :
              /\ FirstFloorAtMost(arg[2], i)
              /\ ret[1] = << BEEP_TABLE[i][2] >>

C14_Witness ==
    ScansReturned /\ arg[2] = 95 /\ arg[3] = 0 /\ ret[1] = << 75 >>

\* positions of the two polling loops of distance_cm
Polling == { "echo_low", "echo_high" }

\* positions after the loop was left by an exception
Leaving == { "except", "finally", "exited" }

\* C15: if the ECHO line keeps the level it has while distance_cm polls it,
\* distance_cm never returns: the main thread stays in the polling loops
\* (or is taken out by an exception) and never gets back to the test of
\* active; no step of the polling makes a port call or drives the buzzer,
\* no passing of time ends it, and an accepted button edge still flips
\* active meanwhile.
C15_StuckEchoNeverReturns ==
    /\ \A level \in { 0, 1 } :
          [] ( (pc = "echo_low" /\ echo = level)
               => ( [] (echo = level) => [] (pc \in Polling \cup Leaving) ) )
    /\ [][ (pc \in Polling)
           => (log' = log /\ buzzer' = buzzer) ]_vars
    /\ [][ (pc \in Polling /\ nEdges' = nEdges + 1 /\ accepts(since))
           => (active' = ~active /\ pc' = pc) ]_vars

C15_Witness ==
    /\ pc = "echo_low" /\ echo = 0 /\ "pulse_start" \in assigned
    /\ ~active /\ since = 0

\* C16 as stated: the shutdown signal is honoured only between blocking
\* calls: the loop is never left for the KeyboardInterrupt handler from
\* inside speak, the echo wait, a sleep or the pulse.
C16_ShutdownOnlyBetweenBlockingCalls ==
    [][ pc' = "except" => pc \notin Blocking ]_vars

\* C16 amended: KeyboardInterrupt is honoured at every position of the loop,
\* inside a blocking call too; the call and the rest of the iteration are
\* abandoned at once, and from then on no port call is made and the buzzer is
\* not driven again (an interrupted pulse is not stopped).
C16_ShutdownAbandonsBlockingCall ==
    /\ [] (pc \in InTry => ENABLED InterruptInLoop)
    /\ [][ (pc \in InTry /\ exit_kind' = "interrupt")
           => (pc' = "except" /\ log' = log /\ buzzer' = buzzer) ]_vars
    /\ [][ (pc \in Leaving)
           => (pc' \in Leaving /\ log' = log /\ buzzer' = buzzer) ]_vars

C16_Witness ==
    pc = "except" /\ buzzer = "on" /\ Last(log) = << "buzzer_start", DUTY >>

\* the port calls of one iteration, in the order of lines 246-253 and 219-223
IterationOrder ==
    << "color_read", "speak", "distance", "sleep", "buzzer_start",
       "buzzer_stop" >>

\* the log of the iteration is a prefix of IterationOrder: every call at its
\* place, none twice
InIterationOrder ==
    /\ Len(log) <= Len(IterationOrder)
    /\ \A i \in 1..Len(log) : log[i][1] = IterationOrder[i]

\* the iteration whose log is q has made all the calls it makes: its pulse
\* is stopped, or no delay was resolved for its distance
Completed(q) ==
    \/ Last(q) = << "buzzer_stop" >>
    \/ Last(q)[1] = "distance" /\ beep_wait_time(Last(q)[2]) = None

\* C17: in every active iteration the calls are made in the order colour
\* read, speak of the name classified for that reading, distance
\* measurement, delay sleep, buzzer.start(10), buzzer.stop(), each at most
\* once; a buzzer start has the delay sleep of its iteration before it; and
\* the next iteration begins (and so speaks) only after the previous one is
\* complete.
C17_IterationEventsInOrder ==
    /\ [] InIterationOrder
    /\ [] (Len(log) >= 2 => log[2] = << "speak", classified[log[1][2]] >>)
    /\ [] (Len(log) >= 5 =>
              /\ log[4] = << "sleep", beep_wait_time(log[3][2])[1] >>
              /\ log[5] = << "buzzer_start", DUTY >>)
    /\ [][ (log # << >> /\ log' = << >>)
           => (pc = "check" /\ active /\ Completed(log)) ]_vars
    /\ [][ (log # << >> /\ log' # log /\ log' # << >>)
           => (Len(log') = Len(log) + 1) ]_vars

C17_Witness ==
    /\ pc = "check" /\ Len(log) = 6
    /\ log[2] = << "speak", "red" >>
    /\ log[4] = << "sleep", 50 >>

\* everything the main thread reads or writes apart from active: its
\* position, the buzzer, the GPIO state and the variables of the loop
LoopState ==
    << pc, buzzer, gpio, armed, cleanups, exit_kind, rgb, color_name, dist,
       wait_time, log, assigned, fault >>

\* C18: a run of on_button changes active and nothing of the buzzer or of the
\* loop; no step of the main thread changes active; and the buzzer changes
\* only at the main thread's own calls (the PWM set-up, start, stop).
C18_OneWriterOneDriver ==
    /\ [][ (nAccepted' # nAccepted)
           => (active' = ~active /\ LoopState' = LoopState) ]_vars
    /\ [][ (LoopState' # LoopState) => active' = active ]_vars
    /\ [][ (buzzer' # buzzer)
           => (pc \in { "setup_pins", "start", "stop" } /\ pc' # pc) ]_vars

C18_Witness ==
    pc = "pulse" /\ buzzer = "on" /\ ~active /\ since = 0 /\ nAccepted = 3

\* C19: whatever the ECHO line does relative to the polling, distance_cm
\* reaches the subtraction of line 200 with pulse_start and pulse_end both
\* assigned.
C19_PulseTimesAssignedBeforeRead ==
    pc = "compute" => { "pulse_start", "pulse_end" } \subseteq assigned

\* q is p, or p with one more entry
ExtendsByAtMostOne(p, q) ==
    \/ q = p
    \/ Len(q) = Len(p) + 1 /\ SubSeq(q, 1, Len(p)) = p

\* number of entries of kind k in the log of the iteration
CountOf(k) == Cardinality({ i \in 1..Len(log) : log[i][1] = k })

\* C20: while active stays false no new iteration begins: the port calls
\* made are those left of the iteration in flight, with at most one speak
\* and one buzzer pulse; once the test of line 241 finds active false the
\* loop only idle-waits, making no port call; and when the sensor responds
\* and active stays false for good, the loop does come to rest in that
\* idle wait (or the process has ended).
C20_PausedLoopComesToRest ==
    /\ [][ (~active /\ ~active') => ExtendsByAtMostOne(log, log') ]_vars
    /\ [] (CountOf("speak") <= 1 /\ CountOf("buzzer_start") <= 1)
    /\ [][ (pc \in { "check", "idle" } /\ ~active /\ ~active')
           => ( /\ pc' \in { "check", "idle", "except" }
                /\ log' = log
                /\ buzzer' = buzzer ) ]_vars
    /\ <>[] (~active) => <>[] (pc \in { "check", "idle", "exited" })

C20_Witness ==
    /\ pc = "idle" /\ ~active /\ nAccepted = 1 /\ since > BOUNCETIME
    /\ log # << >>
    /\ Last(log) = << "buzzer_stop" >>

=============================================================================
